---- MODULE Spec2Model ----
(***************************************************************************)
(* A model of download_install_tool.py: the menu loop of main, the device  *)
(* locator, the three batch workflows (download_apps,                      *)
(* download_and_install_apps, install_local_apks) with their per-entry     *)
(* tasks on a ThreadPoolExecutor or in a sequential loop, the aggregate    *)
(* counters the tasks share, and the ledger file download.xlsx, which      *)
(* update_excel_status reads whole and writes back whole.                  *)
(*                                                                         *)
(* Texts are sequences of tokens, so that the substring test               *)
(* ("成功" in status) and str.endswith("device") are computed, not assumed;*)
(* the token "success" stands for 成功, "failure" for 失败.                 *)
(* A cell that pandas reads as NaN is the empty text <<>>.                 *)
(***************************************************************************)
EXTENDS Integers, Sequences, FiniteSets, TLC

\* Bounds of the model.
MaxEntries == 2        \* ledger rows / package files of one batch
MaxBatches == 2        \* menu choices handled in one run of the process
MaxDevices == 2        \* device lines in a listing of adb devices
MaxCallers == 2        \* concurrent callers of update_excel_status (SpecUpsert)
PoolExtra == 1         \* entries beyond the pool's size in a batch (SpecPool)

\* ThreadPoolExecutor(max_workers=5)
max_workers == 5

AllNames == <<"a", "b", "c", "d", "e", "f", "g", "h">>
NameSet(n) == {AllNames[k] : k \in 1..n}

None == "None"

\* The texts of the program.
DlOk == <<"download", "success">>           \* "下载成功"
DlFail(e) == <<"download", "failure", e>>   \* f"下载失败: {e}"
InstOk == <<"install", "success">>          \* "安装成功"
InstFail(e) == <<"install", "failure", e>>  \* f"安装失败: {e}"
NotInstalled == <<"not", "install">>        \* "未安装"
Downloaded == <<"already", "download">>     \* "已下载"
LocalInstall == <<"local", "install">>      \* "本地安装"
UrlOf(n) == <<"http", n>>                   \* the link the operator entered for n

\* What requests.get / the file write of download_app can raise: "404" is
\* raise_for_status (before the file is opened), "reset" a broken stream
\* (after the file was opened, so a partial file stays).
FetchErrors == {"404", "reset"}
\* The text of a CalledProcessError of adb install.
InstallErrors == {"exit1"}

VARIABLES
    mainpc,      \* main: "menu" | "checked" | "running" | "exited" | "crashed"
    choice,      \* the last menu input
    rounds,      \* menu choices handled so far
    adb_out,     \* stdout of `adb devices` while main holds it (lines of tokens)
    device_id,   \* what check_device_online returned
    excel,       \* download.xlsx: [exists, rows]
    apk_files,   \* the names n with a file n.apk in the directory
    workflow,    \* the batch function running (or last run)
    parallel,    \* its parallel argument
    df,          \* the DataFrame the batch function read at its start
    counters,    \* the nonlocal tallies of the batch function
    tasks,       \* the per-entry tasks of the batch
    console,     \* the aggregate lines the batch printed
    confirmation \* the answer delete_all_apks read ("none": not asked)

vars == <<mainpc, choice, rounds, adb_out, device_id, confirmation, excel, apk_files,
          workflow, parallel, df, counters, tasks, console, confirmation>>

----------------------------------------------------------------------------
\* Pure functions.

\* "成功" in status
HasSuccess(status) == \E k \in DOMAIN status : status[k] = "success"

\* df['应用名'].values
NamesOf(rows) == {rows[k].name : k \in DOMAIN rows}

\* df[df['应用名'] == app_name].index[0]
IndexOf(rows, app_name) ==
    CHOOSE k \in DOMAIN rows :
        /\ rows[k].name = app_name
        /\ \A j \in 1..(k - 1) : rows[j].name # app_name

Row(app_name, url, download_status, install_status) ==
    [name |-> app_name, url |-> url, dls |-> download_status, ins |-> install_status]

\* update_excel_status between its read and its write: the row of app_name gets
\* the two statuses, or a new row is appended.
UpsertAppendAlways(rows, app_name, url, download_status, install_status) ==
    Append(rows, Row(app_name, url, download_status, install_status))

UpsertKeepExisting(rows, app_name, url, download_status, install_status) ==
    IF app_name \in NamesOf(rows)
    THEN rows
    ELSE Append(rows, Row(app_name, url, download_status, install_status))

UpsertOverwriteUrl(rows, app_name, url, download_status, install_status) ==
    IF app_name \in NamesOf(rows)
    THEN [rows EXCEPT ![IndexOf(rows, app_name)] =
                          Row(app_name, url, download_status, install_status)]
    ELSE Append(rows, Row(app_name, url, download_status, install_status))

Upsert(rows, app_name, url, download_status, install_status) ==
    IF app_name \in NamesOf(rows)
    THEN [rows EXCEPT ![IndexOf(rows, app_name)].dls = download_status,
                      ![IndexOf(rows, app_name)].ins = install_status]
    ELSE Append(rows, Row(app_name, url, download_status, install_status))

\* line.endswith("device"): the line's last token is the ready state.
EndsWithDevice(line) == Len(line) > 0 /\ line[Len(line)] = "device"

\* [line for line in devices if line.endswith("device")]
ReadyLines(lines) == SelectSeq(lines, EndsWithDevice)

\* What subprocess.run(["adb", "devices"]) gave: it raised (adb missing), or
\* it returned with the lines of its stdout.
AdbRaised == [raised |-> TRUE, stdout |-> <<>>]
AdbPrinted(lines) == [raised |-> FALSE, stdout |-> lines]
NoRun == AdbPrinted(<<>>)

\* check_device_online: the id of the only ready line, else None; an exception
\* of the run is caught and gives None.
CheckFirstOfMany(run) ==
    IF run.raised THEN None
    ELSE IF Len(ReadyLines(run.stdout)) = 0 THEN None
         ELSE ReadyLines(run.stdout)[1][1]

check_device_online(run) ==
    IF run.raised THEN None
    ELSE IF Len(ReadyLines(run.stdout)) = 0 THEN None
         ELSE IF Len(ReadyLines(run.stdout)) > 1 THEN None
              ELSE ReadyLines(run.stdout)[1][1]

----------------------------------------------------------------------------
\* The state of a batch.

NoFile == [exists |-> FALSE, rows |-> <<>>]
File(rows) == [exists |-> TRUE, rows |-> rows]

ZeroCounters ==
    [download_success |-> 0, download_failure |-> 0, total_downloads |-> 0,
     total_installs |-> 0, install_success |-> 0, install_failure |-> 0]

\* A task before a worker (or the sequential loop) calls it.  apk is apk_path,
\* dls and ins its two statuses, tmp the counter value an increment has read,
\* ldf the DataFrame update_excel_status has read, log the calls it has made.
NewTask(app_name, url, download_status, install_status) ==
    [pc |-> "queued", name |-> app_name, url |-> url, apk |-> None,
     dls |-> download_status, ins |-> install_status,
     tmp |-> 0, ldf |-> <<>>, log |-> <<>>]

Finished(t) == t.pc \in {"done", "raised"}
Executing(t) == t.pc \notin {"queued", "done", "raised"}
ExecutingSet == {k \in DOMAIN tasks : Executing(tasks[k])}

\* The first statement of the task function of each workflow.
FirstPc(wf) ==
    CASE wf = "download_apps" -> "fetch"
      [] wf = "download_and_install_apps" -> "fetch"
      [] wf = "install_local_apks" -> "install"
      [] OTHER -> "xl_read"

\* The counter an increment of task t is about, by where the task is.
CounterAt(t) ==
    CASE t.pc \in {"dl_count_read", "dl_count_write"} ->
            IF HasSuccess(t.dls) THEN "download_success" ELSE "download_failure"
      [] t.pc \in {"total_read", "total_write"} -> "total_installs"
      [] OTHER ->
            IF HasSuccess(t.ins) THEN "install_success" ELSE "install_failure"

\* if apk_path: (download_and_install_apps.process_app)
InstallAlways(t) == "install"

AfterDownloadCount(t) == IF t.apk # None THEN "install" ELSE "xl_read"

----------------------------------------------------------------------------
\* The per-entry task: process_app of download_apps and of
\* download_and_install_apps, install_apk of install_local_apks.  One action
\* per external call and per access to what the tasks share (a counter, the
\* ledger file); a += on a nonlocal is a read and a write with other threads
\* free to run in between.

\* The pool has a worker free for one more task.
WorkerAlwaysFree == TRUE

WorkerFree == Cardinality(ExecutingSet) < max_workers

\* A worker takes the next submitted task (parallel), or the loop reaches the
\* next entry after the call before it returned (sequential).
start_task(i) ==
    /\ mainpc = "running"
    /\ tasks[i].pc = "queued"
    /\ \A j \in 1..(i - 1) : tasks[j].pc # "queued"
    /\ IF parallel THEN WorkerFree
       ELSE \A j \in 1..(i - 1) : tasks[j].pc = "done"
    /\ tasks' = [tasks EXCEPT ![i].pc = FirstPc(workflow)]
    /\ UNCHANGED <<mainpc, choice, rounds, adb_out, device_id, excel, apk_files,
                   confirmation, workflow, parallel, df, counters, console>>

\* download_app: (file_path, "下载成功"), or on any exception (None, "下载失败: e").
\* The install status the task will record starts as "未安装" (the literal of
\* download_apps, install_status = "未安装" of download_and_install_apps).
download_app(i) ==
    /\ mainpc = "running"
    /\ tasks[i].pc = "fetch"
    /\ \/ /\ tasks' = [tasks EXCEPT ![i].pc = "dl_count_read",
                                    ![i].apk = tasks[i].name,
                                    ![i].dls = DlOk,
                                    ![i].ins = NotInstalled,
                                    ![i].log = Append(@, "fetch")]
          /\ apk_files' = apk_files \cup {tasks[i].name}
       \/ \E e \in FetchErrors :
          /\ tasks' = [tasks EXCEPT ![i].pc = "dl_count_read",
                                    ![i].apk = None,
                                    ![i].dls = DlFail(e),
                                    ![i].ins = NotInstalled,
                                    ![i].log = Append(@, "fetch")]
          /\ apk_files' = IF e = "reset" THEN apk_files \cup {tasks[i].name}
                          ELSE apk_files
    /\ UNCHANGED <<mainpc, choice, rounds, adb_out, device_id, excel,
                   confirmation, workflow, parallel, df, counters, console>>

\* url = df[...]['下载链接'].values[0] if app_name in df['应用名'].values else "本地安装"
LocalUrl(app_name) ==
    IF app_name \in NamesOf(df) THEN df[IndexOf(df, app_name)].url ELSE LocalInstall

\* The task after install_app returned install_status.
AfterInstall(t, install_status) ==
    IF workflow = "install_local_apks"
    THEN [t EXCEPT !.pc = "xl_read", !.ins = install_status, !.dls = Downloaded,
                   !.url = LocalUrl(t.name), !.log = Append(@, "install")]
    ELSE [t EXCEPT !.pc = "total_read", !.ins = install_status,
                   !.log = Append(@, "install")]

\* install_app: "安装成功", or "安装失败: e" on CalledProcessError; any other
\* exception of subprocess.run (adb not found, OSError) is not caught.
install_app(i) ==
    /\ mainpc = "running"
    /\ tasks[i].pc = "install"
    /\ \/ tasks' = [tasks EXCEPT ![i] = AfterInstall(tasks[i], InstOk)]
       \/ \E e \in InstallErrors :
            tasks' = [tasks EXCEPT ![i] = AfterInstall(tasks[i], InstFail(e))]
       \/ tasks' = [tasks EXCEPT ![i].pc = "raised",
                                 ![i].log = Append(@, "install")]
    /\ UNCHANGED <<mainpc, choice, rounds, adb_out, device_id, excel, apk_files,
                   confirmation, workflow, parallel, df, counters, console>>

\* counter += 1, first half: the value is read.
count_read(i) ==
    /\ mainpc = "running"
    /\ tasks[i].pc \in {"dl_count_read", "total_read", "in_count_read"}
    /\ tasks' = [tasks EXCEPT
                   ![i].tmp = counters[CounterAt(tasks[i])],
                   ![i].pc = CASE tasks[i].pc = "dl_count_read" -> "dl_count_write"
                               [] tasks[i].pc = "total_read" -> "total_write"
                               [] OTHER -> "in_count_write"]
    /\ UNCHANGED <<mainpc, choice, rounds, adb_out, device_id, excel, apk_files,
                   confirmation, workflow, parallel, df, counters, console>>

\* Where a task goes on after an increment.
AfterCountInstalls(t) ==
    CASE t.pc = "dl_count_write" -> AfterDownloadCount(t)
      [] t.pc = "total_write" -> "in_count_read"
      [] OTHER ->
            IF workflow = "install_local_apks" THEN "done" ELSE "xl_read"

AfterCount(t) ==
    CASE t.pc = "dl_count_write" ->
            IF workflow = "download_apps" THEN "xl_read" ELSE AfterDownloadCount(t)
      [] t.pc = "total_write" -> "in_count_read"
      [] OTHER ->
            IF workflow = "install_local_apks" THEN "done" ELSE "xl_read"

\* counter += 1, second half: the value read, plus one, is stored.
count_write(i) ==
    /\ mainpc = "running"
    /\ tasks[i].pc \in {"dl_count_write", "total_write", "in_count_write"}
    /\ counters' = [counters EXCEPT ![CounterAt(tasks[i])] = tasks[i].tmp + 1]
    /\ tasks' = [tasks EXCEPT ![i].tmp = 0, ![i].pc = AfterCount(tasks[i])]
    /\ UNCHANGED <<mainpc, choice, rounds, adb_out, device_id, excel, apk_files,
                   confirmation, workflow, parallel, df, console>>

\* update_excel_status, df = pd.read_excel(excel_file): the whole file is read;
\* a missing file raises.
xl_read(i) ==
    /\ mainpc = "running"
    /\ tasks[i].pc = "xl_read"
    /\ tasks' = IF excel.exists
                THEN [tasks EXCEPT ![i].pc = "xl_write", ![i].ldf = excel.rows]
                ELSE [tasks EXCEPT ![i].pc = "raised"]
    /\ UNCHANGED <<mainpc, choice, rounds, adb_out, device_id, excel, apk_files,
                   confirmation, workflow, parallel, df, counters, console>>

\* Where a task goes on after update_excel_status returned.
AfterUpsert(t) == IF workflow = "install_local_apks" THEN "in_count_read" ELSE "done"

\* update_excel_status, df.to_excel(excel_file): the DataFrame read before, with
\* the row of app_name changed or appended, replaces the file; an I/O error of
\* the write (the file is open elsewhere, the disk is full) is not caught.
xl_write(i) ==
    /\ mainpc = "running"
    /\ tasks[i].pc = "xl_write"
    /\ \/ /\ excel' = File(Upsert(tasks[i].ldf, tasks[i].name, tasks[i].url,
                                  tasks[i].dls, tasks[i].ins))
          /\ tasks' = [tasks EXCEPT ![i].pc = AfterUpsert(tasks[i]),
                                    ![i].ldf = <<>>,
                                    ![i].log = Append(@, "upsert")]
       \/ /\ tasks' = [tasks EXCEPT ![i].pc = "raised", ![i].ldf = <<>>]
          /\ UNCHANGED excel
    /\ UNCHANGED <<mainpc, choice, rounds, adb_out, device_id, apk_files,
                   confirmation, workflow, parallel, df, counters, console>>

\* The lines the batch function prints after its loop.
Line(phase, success, failure, total) ==
    [phase |-> phase, success |-> success, failure |-> failure, total |-> total]

Report(wf, c) ==
    CASE wf = "download_apps" ->
            <<Line("download", c.download_success, c.download_failure, c.total_downloads)>>
      [] wf = "download_and_install_apps" ->
            <<Line("download", c.download_success, c.download_failure, c.total_downloads),
              Line("install", c.install_success, c.install_failure, c.total_installs)>>
      [] OTHER ->
            <<Line("install", c.install_success, c.install_failure, c.total_installs)>>

\* An exception of a task reaches the caller of the batch function.  Parallel:
\* future.result() raises it, and the with block then waits for every task
\* (shutdown(wait=True)) before it goes on up.  Sequential: it leaves the loop
\* at once.  main catches nothing, so the process ends with it.
SomeRaised == \E k \in DOMAIN tasks : tasks[k].pc = "raised"
AllFinished == \A k \in DOMAIN tasks : Finished(tasks[k])
AllDone == \A k \in DOMAIN tasks : tasks[k].pc = "done"

\* The loop over the futures (or over the entries) is through.
JoinedOnLastResult == tasks # <<>> /\ AllDone

Joined == AllDone

batch_report ==
    /\ mainpc = "running"
    /\ Joined
    /\ console' = Report(workflow, counters)
    /\ mainpc' = "menu"
    /\ UNCHANGED <<choice, rounds, adb_out, device_id, excel, apk_files,
                   confirmation, workflow, parallel, df, counters, tasks>>

batch_raise ==
    /\ mainpc = "running"
    /\ SomeRaised
    /\ parallel => AllFinished
    /\ mainpc' = "crashed"
    /\ UNCHANGED <<choice, rounds, adb_out, device_id, excel, apk_files,
                   confirmation, workflow, parallel, df, counters, tasks, console>>

----------------------------------------------------------------------------
\* The batch functions up to their loop, and main.

ClearBatch(wf, par) ==
    /\ workflow' = wf
    /\ parallel' = par
    /\ df' = <<>>
    /\ counters' = ZeroCounters
    /\ tasks' = <<>>
    /\ console' = <<>>

\* The function returns before its loop (a printed message, no batch).
ReturnEarly(wf, par) ==
    /\ ClearBatch(wf, par)
    /\ mainpc' = "menu"

\* The function has read the ledger and enters its loop over items.
BeginBatch(wf, par, rows, items, c) ==
    /\ workflow' = wf
    /\ parallel' = par
    /\ df' = rows
    /\ counters' = c
    /\ tasks' = items
    /\ console' = <<>>
    /\ mainpc' = "running"

\* for index, row in df.iterrows(): one task per row, in row order.
RowTasks(rows) ==
    [k \in 1..Len(rows) |-> NewTask(rows[k].name, rows[k].url, <<>>, <<>>)]

\* download_apps up to its loop.
download_apps(par) ==
    /\ UNCHANGED <<excel, apk_files>>
    /\ IF ~excel.exists
       THEN ReturnEarly("download_apps", par)
       ELSE BeginBatch("download_apps", par, excel.rows, RowTasks(excel.rows),
                       [ZeroCounters EXCEPT !.total_downloads = Len(excel.rows)])

\* download_and_install_apps up to its loop.
download_and_install_apps(par) ==
    /\ UNCHANGED <<excel, apk_files>>
    /\ IF ~excel.exists
       THEN ReturnEarly("download_and_install_apps", par)
       ELSE BeginBatch("download_and_install_apps", par, excel.rows,
                       RowTasks(excel.rows),
                       [ZeroCounters EXCEPT !.total_downloads = Len(excel.rows)])

\* The orders os.listdir may list the files of S in.
Orders(S) ==
    {o \in [1..Cardinality(S) -> S] : \A j, k \in DOMAIN o : j # k => o[j] # o[k]}

\* install_local_apks up to its loop: a missing ledger is created empty first.
InstallLocalNoCreate(par) ==
    /\ UNCHANGED <<excel, apk_files>>
    /\ IF apk_files = {}
       THEN ReturnEarly("install_local_apks", par)
       ELSE \E o \in Orders(apk_files) :
              BeginBatch("install_local_apks", par, excel.rows,
                         [k \in DOMAIN o |-> NewTask(o[k], <<>>, <<>>, <<>>)],
                         [ZeroCounters EXCEPT !.total_installs = Len(o)])

install_local_apks(par) ==
    /\ excel' = IF excel.exists THEN excel ELSE File(<<>>)
    /\ UNCHANGED apk_files
    /\ IF apk_files = {}
       THEN ReturnEarly("install_local_apks", par)
       ELSE \E o \in Orders(apk_files) :
              BeginBatch("install_local_apks", par, excel'.rows,
                         [k \in DOMAIN o |-> NewTask(o[k], <<>>, <<>>, <<>>)],
                         [ZeroCounters EXCEPT !.total_installs = Len(o)])

\* The listings adb devices may print: the header, up to MaxDevices device
\* lines "<id>\t<state>", an empty last line.
DeviceIds == <<"d1", "d2", "d3", "d4">>
DeviceStates == {"device", "offline", "unauthorized"}
Header == <<"List", "of", "devices", "attached">>
Listings ==
    {<<Header>> \o [k \in 1..n |-> <<DeviceIds[k], st[k]>>] \o << <<>> >> :
        n \in 0..MaxDevices, st \in [1..MaxDevices -> DeviceStates]}
AdbRuns == {AdbRaised} \cup {AdbPrinted(l) : l \in Listings}

\* choice == 'q'
main_quit ==
    /\ mainpc = "menu"
    /\ mainpc' = "exited"
    /\ choice' = "q"
    /\ UNCHANGED <<rounds, adb_out, device_id, excel, apk_files,
                   confirmation, workflow, parallel, df, counters, tasks, console>>

\* choice == '1'
main_download ==
    /\ mainpc = "menu"
    /\ rounds < MaxBatches
    /\ choice' = "1"
    /\ rounds' = rounds + 1
    /\ download_apps(TRUE)
    /\ confirmation' = "none"
    /\ UNCHANGED <<adb_out, device_id>>

\* choice == '2' or '3', device_id = check_device_online()
main_check_device(c) ==
    /\ mainpc = "menu"
    /\ rounds < MaxBatches
    /\ choice' = c
    /\ rounds' = rounds + 1
    /\ \E run \in AdbRuns :
         /\ adb_out' = run
         /\ device_id' = check_device_online(run)
    /\ mainpc' = "checked"
    /\ confirmation' = "none"
    /\ ClearBatch("none", TRUE)
    /\ UNCHANGED <<excel, apk_files>>

\* choice == '2', if device_id: install_local_apks(...)
main_install ==
    /\ mainpc = "checked"
    /\ choice = "2"
    /\ adb_out' = NoRun
    /\ IF device_id # None
       THEN install_local_apks(TRUE)
       ELSE ReturnEarly("none", TRUE) /\ UNCHANGED <<excel, apk_files>>
    /\ UNCHANGED <<choice, rounds, device_id, confirmation>>

\* choice == '3', if device_id: download_and_install_apps(...)
main_download_install ==
    /\ mainpc = "checked"
    /\ choice = "3"
    /\ adb_out' = NoRun
    /\ IF device_id # None
       THEN download_and_install_apps(TRUE)
       ELSE ReturnEarly("none", TRUE) /\ UNCHANGED <<excel, apk_files>>
    /\ UNCHANGED <<choice, rounds, device_id, confirmation>>

\* delete_all_apks: with no file, or an answer other than 'y', nothing is
\* removed; with 'y' each file is removed unless os.remove raised for it.
DeleteWithoutAsking(answer) ==
    IF apk_files # {}
    THEN apk_files' \in SUBSET apk_files
    ELSE apk_files' = apk_files

delete_all_apks(answer) ==
    IF apk_files # {} /\ answer = "y"
    THEN apk_files' \in SUBSET apk_files
    ELSE apk_files' = apk_files

\* choice == '4'
main_delete ==
    /\ mainpc = "menu"
    /\ rounds < MaxBatches
    /\ choice' = "4"
    /\ rounds' = rounds + 1
    /\ \E answer \in {"y", "n", "other"} :
         /\ confirmation' = (IF apk_files = {} THEN "none" ELSE answer)
         /\ delete_all_apks(answer)
    /\ ReturnEarly("none", TRUE)
    /\ UNCHANGED <<adb_out, device_id, excel>>

\* any other input
main_invalid ==
    /\ mainpc = "menu"
    /\ rounds < MaxBatches
    /\ choice' = "other"
    /\ rounds' = rounds + 1
    /\ ReturnEarly("none", TRUE)
    /\ confirmation' = "none"
    /\ UNCHANGED <<adb_out, device_id, excel, apk_files>>

\* The batch functions called with parallel=False, the mode main never asks
\* for: the loop runs the task function entry after entry.
call_sequential ==
    /\ mainpc = "menu"
    /\ rounds < MaxBatches
    /\ choice' = "call"
    /\ rounds' = rounds + 1
    /\ \/ download_apps(FALSE)
       \/ download_and_install_apps(FALSE)
       \/ install_local_apks(FALSE)
    /\ confirmation' = "none"
    /\ UNCHANGED <<adb_out, device_id>>

----------------------------------------------------------------------------
\* The program.

FreshRow(n) == Row(n, UrlOf(n), <<>>, <<>>)

\* The process starts at the menu; the directory holds no ledger, or one the
\* operator filled with some names and links, and some package files.
Init ==
    /\ mainpc = "menu"
    /\ choice = "none"
    /\ rounds = 0
    /\ adb_out = NoRun
    /\ device_id = None
    /\ excel \in {NoFile} \cup
                 {File([k \in 1..n |-> FreshRow(AllNames[k])]) : n \in 0..MaxEntries}
    /\ apk_files \in SUBSET NameSet(MaxEntries)
    /\ workflow = "none"
    /\ parallel = TRUE
    /\ df = <<>>
    /\ counters = ZeroCounters
    /\ tasks = <<>>
    /\ console = <<>>
    /\ confirmation = "none"

Next ==
    \/ main_quit
    \/ main_download
    \/ \E c \in {"2", "3"} : main_check_device(c)
    \/ main_install
    \/ main_download_install
    \/ main_delete
    \/ main_invalid
    \/ call_sequential
    \/ \E i \in DOMAIN tasks : start_task(i)
    \/ \E i \in DOMAIN tasks : download_app(i)
    \/ \E i \in DOMAIN tasks : install_app(i)
    \/ \E i \in DOMAIN tasks : count_read(i)
    \/ \E i \in DOMAIN tasks : count_write(i)
    \/ \E i \in DOMAIN tasks : xl_read(i)
    \/ \E i \in DOMAIN tasks : xl_write(i)
    \/ batch_report
    \/ batch_raise

Spec == Init /\ [][Next]_vars

----------------------------------------------------------------------------
\* A batch larger than the pool.  download_apps has read a ledger of
\* max_workers + PoolExtra rows and submitted one task per row; the first
\* max_workers tasks hold the pool's workers, each has fetched (the first
\* ok of them with success, here all), counted, and read the ledger in
\* update_excel_status; the others wait in the executor's queue.  (The runs
\* from the submission to this state interleave max_workers tasks over all
\* their statements; Spec explores those interleavings for MaxEntries tasks.)

PoolRows == [k \in 1..(max_workers + PoolExtra) |-> FreshRow(AllNames[k])]

PoolTask(k, ok) ==
    IF k > max_workers THEN NewTask(AllNames[k], UrlOf(AllNames[k]), <<>>, <<>>)
    ELSE [NewTask(AllNames[k], UrlOf(AllNames[k]),
                  IF k <= ok THEN DlOk ELSE DlFail("404"), NotInstalled)
            EXCEPT !.pc = "xl_write",
                   !.apk = IF k <= ok THEN AllNames[k] ELSE None,
                   !.ldf = PoolRows,
                   !.log = <<"fetch">>]

InitPool ==
    LET ok == max_workers IN
        /\ mainpc = "running"
        /\ choice = "1"
        /\ rounds = 1
        /\ adb_out = NoRun
        /\ device_id = None
        /\ excel = File(PoolRows)
        /\ apk_files = NameSet(ok)
        /\ workflow = "download_apps"
        /\ parallel = TRUE
        /\ df = PoolRows
        /\ counters = [ZeroCounters EXCEPT !.total_downloads = Len(PoolRows),
                                           !.download_success = ok,
                                           !.download_failure = max_workers - ok]
        /\ tasks = [k \in 1..Len(PoolRows) |-> PoolTask(k, ok)]
        /\ console = <<>>
        /\ confirmation = "none"

NextPool ==
    \/ \E i \in DOMAIN tasks : start_task(i)
    \/ \E i \in DOMAIN tasks : download_app(i)
    \/ \E i \in DOMAIN tasks : count_read(i)
    \/ \E i \in DOMAIN tasks : count_write(i)
    \/ \E i \in DOMAIN tasks : xl_read(i)
    \/ \E i \in DOMAIN tasks : xl_write(i)
    \/ batch_report
    \/ batch_raise
    \/ main_quit

\* The threads of the pool are scheduled fairly and every external call
\* returns: a step that can be taken is taken.
SpecPool == InitPool /\ [][NextPool]_vars /\ WF_vars(NextPool)

----------------------------------------------------------------------------
\* update_excel_status by itself: MaxCallers calls with any arguments on a
\* ledger with one row per name, one after the other (parallel = FALSE) or
\* from concurrent threads (parallel = TRUE).

UpsertNames == {"a", "b"}
StatusPairs == {<<DlOk, NotInstalled>>, <<DlFail("404"), NotInstalled>>,
                <<Downloaded, InstOk>>}
UpsertCalls ==
    {NewTask(n, u, sp[1], sp[2]) :
        n \in UpsertNames, u \in {UrlOf("a"), LocalInstall}, sp \in StatusPairs}

\* The ledgers with at most one row per name of UpsertNames, a row as the
\* operator entered it or as an earlier batch left it.
UpsertLedgers ==
    {<<>>}
    \cup {<<Row(n, UrlOf(n), sp[1], sp[2])>> :
            n \in UpsertNames, sp \in {<<<<>>, <<>>>>, <<DlOk, InstOk>>}}
    \cup UNION {{<<Row(n, UrlOf(n), <<>>, <<>>), Row(m, UrlOf(m), sp[1], sp[2])>> :
                    m \in UpsertNames \ {n},
                    sp \in {<<<<>>, <<>>>>, <<DlOk, InstOk>>}} : n \in UpsertNames}

InitUpsert ==
    /\ mainpc = "running"
    /\ choice = "none"
    /\ rounds = 0
    /\ adb_out = NoRun
    /\ device_id = None
    /\ excel \in {File(l) : l \in UpsertLedgers}
    /\ apk_files = {}
    /\ workflow = "update_excel_status"
    /\ parallel \in BOOLEAN
    /\ df = excel.rows
    /\ counters = ZeroCounters
    /\ tasks \in [1..MaxCallers -> UpsertCalls]
    /\ console = <<>>
    /\ confirmation = "none"

NextUpsert ==
    \/ \E i \in DOMAIN tasks : start_task(i)
    \/ \E i \in DOMAIN tasks : xl_read(i)
    \/ \E i \in DOMAIN tasks : xl_write(i)

SpecUpsert == InitUpsert /\ [][NextUpsert]_vars

----------------------------------------------------------------------------
\* Properties.

\* The batch function has printed its aggregate lines and returned to main.
BatchReported == mainpc \in {"menu", "exited"} /\ console # <<>>

InLog(t, call) == \E k \in DOMAIN t.log : t.log[k] = call

DistinctTaskNames ==
    \A j, k \in DOMAIN tasks : j # k => tasks[j].name # tasks[k].name

\* The ledger has a row of t's name with the two statuses t recorded.
HasRowOf(rows, t) ==
    \E r \in DOMAIN rows :
        rows[r].name = t.name /\ rows[r].dls = t.dls /\ rows[r].ins = t.ins

\* C1: after a parallel batch whose tasks upsert pairwise distinct names, the
\* ledger holds for every task a row of its name with the download and
\* install statuses that task recorded.
C1_NoLostUpsert ==
    (BatchReported /\ parallel /\ DistinctTaskNames)
        => \A k \in DOMAIN tasks : HasRowOf(excel.rows, tasks[k])

\* C2: in every line a batch reports (download phase, install phase),
\* success + failure = total.
C2_CountsAddUp ==
    \A k \in DOMAIN console :
        console[k].success + console[k].failure = console[k].total

\* C3: no exception escapes a per-entry task, and no batch is aborted by the
\* failure of an entry.
C3_FailureNeverAborts ==
    /\ \A k \in DOMAIN tasks : tasks[k].pc # "raised"
    /\ mainpc # "crashed"

UniqueNames(rows) == \A j, k \in DOMAIN rows : j # k => rows[j].name # rows[k].name

\* C4: from a ledger with at most one row per name, under any interleaving of
\* the reads and writes of upserts (of any names, equal ones included), the
\* ledger file, and every DataFrame about to be written to it, holds at most
\* one row per name.
C4_OneRowPerName ==
    /\ UniqueNames(excel.rows)
    /\ \A k \in DOMAIN tasks : UniqueNames(tasks[k].ldf)

\* Two concurrent upserts of one absent name: the second has appended the row
\* while the first, which read the ledger without it, is about to write.
C4_Witness ==
    /\ workflow = "update_excel_status"
    /\ parallel
    /\ tasks[1].name = tasks[2].name
    /\ tasks[1].name \notin NamesOf(df)
    /\ tasks[1].pc = "xl_write"
    /\ tasks[1].name \notin NamesOf(tasks[1].ldf)
    /\ tasks[2].pc = "done"
    /\ tasks[1].name \in NamesOf(excel.rows)

RowsNamed(rows, app_name) == {r \in DOMAIN rows : rows[r].name = app_name}

\* C5: after two upserts of one name in sequence (the later calls not yet
\* through), the ledger holds exactly one row of that name, with the statuses
\* of the second call.
C5_SecondCallWins ==
    \A k \in DOMAIN tasks :
        ( /\ workflow = "update_excel_status"
          /\ ~parallel
          /\ k + 1 \in DOMAIN tasks
          /\ tasks[k].pc = "done"
          /\ tasks[k + 1].pc = "done"
          /\ tasks[k].name = tasks[k + 1].name
          /\ \A j \in DOMAIN tasks : j > k + 1 => tasks[j].pc # "done" )
        => /\ Cardinality(RowsNamed(excel.rows, tasks[k].name)) = 1
           /\ \A r \in RowsNamed(excel.rows, tasks[k].name) :
                /\ excel.rows[r].dls = tasks[k + 1].dls
                /\ excel.rows[r].ins = tasks[k + 1].ins

\* Two calls in sequence for a name the ledger did not hold, the second with
\* other statuses than the first.
C5_Witness ==
    /\ workflow = "update_excel_status"
    /\ ~parallel
    /\ tasks[1].pc = "done"
    /\ tasks[2].pc = "done"
    /\ tasks[1].name = tasks[2].name
    /\ tasks[1].name \notin NamesOf(df)
    /\ tasks[1].dls # tasks[2].dls
    /\ tasks[1].ins # tasks[2].ins

\* C6: in download_and_install_apps a task calls (or is about to call) the
\* Installer only after its own Fetcher call returned a path and "下载成功",
\* and a task whose fetch failed never calls it.
C6_InstallAfterFetch ==
    workflow = "download_and_install_apps" =>
        \A k \in DOMAIN tasks :
            /\ (tasks[k].pc = "install" \/ InLog(tasks[k], "install"))
                 => /\ tasks[k].log # <<>>
                    /\ tasks[k].log[1] = "fetch"
                    /\ tasks[k].apk # None
                    /\ tasks[k].dls = DlOk
            /\ (InLog(tasks[k], "fetch") /\ tasks[k].dls # DlOk)
                 => /\ tasks[k].pc # "install"
                    /\ ~InLog(tasks[k], "install")

\* One task has called the Installer after its fetch, another, whose fetch
\* failed, is through without an Installer call.
C6_Witness ==
    /\ workflow = "download_and_install_apps"
    /\ \E k \in DOMAIN tasks : tasks[k].log = <<"fetch", "install", "upsert">>
    /\ \E k \in DOMAIN tasks :
         /\ tasks[k].pc = "done"
         /\ tasks[k].apk = None
         /\ tasks[k].log = <<"fetch", "upsert">>

HasFailure(status) == \E k \in DOMAIN status : status[k] = "failure"

\* C7: after a download-only or download-and-install batch has reported, a
\* task whose fetch failed holds (None, a status containing "failure"), and
\* no ledger row of its name carries a download status indicating success.
C7_FailedFetchNotSuccess ==
    (BatchReported /\ workflow \in {"download_apps", "download_and_install_apps"})
        => \A k \in DOMAIN tasks :
             ~HasSuccess(tasks[k].dls)
                => /\ tasks[k].apk = None
                   /\ HasFailure(tasks[k].dls)
                   /\ \A r \in RowsNamed(excel.rows, tasks[k].name) :
                        ~HasSuccess(excel.rows[r].dls)

\* The lines of a listing that are a device in the ready state: "<id> device".
ReadyDevices(run) ==
    {k \in DOMAIN run.stdout :
        Len(run.stdout[k]) = 2 /\ run.stdout[k][2] = "device"}

\* C8: check_device_online returns the id of the ready line if and only if
\* exactly one line of the listing is ready, else None; and with None the
\* menu choices 2 and 3 return to the menu with no task dispatched.
C8_LocateDevice ==
    /\ mainpc = "checked" =>
         IF ~adb_out.raised /\ Cardinality(ReadyDevices(adb_out)) = 1
         THEN \A k \in ReadyDevices(adb_out) : device_id = adb_out.stdout[k][1]
         ELSE device_id = None
    /\ (choice \in {"2", "3"} /\ device_id = None)
         => /\ mainpc \in {"checked", "menu"}
            /\ tasks = <<>>
            /\ workflow = "none"

\* One ready and one offline device are listed, and the ready one is located.
C8_Witness ==
    /\ mainpc = "checked"
    /\ Cardinality(ReadyDevices(adb_out)) = 1
    /\ \E k \in DOMAIN adb_out.stdout :
         Len(adb_out.stdout[k]) = 2 /\ adb_out.stdout[k][2] = "offline"
    /\ device_id # None

\* C9: the aggregate lines are printed only when every task of the batch has
\* completed, and a batch function that has dispatched tasks does not end
\* without printing them.
C9_ReportAfterAllTasks ==
    /\ console # <<>> => \A k \in DOMAIN tasks : tasks[k].pc = "done"
    /\ (mainpc # "running" /\ tasks # <<>>) => console # <<>>

\* C10: at most 5 tasks execute at any moment, and every task waiting in the
\* queue is eventually taken by a worker and runs to its end.
C10_PoolBound ==
    /\ [](Cardinality(ExecutingSet) <= 5)
    /\ \A i \in (max_workers + 1)..(max_workers + PoolExtra) :
         (tasks[i].pc = "queued") ~> Finished(tasks[i])

\* The pool is full again with an entry that had to wait for a free worker.
C10_Witness ==
    /\ Cardinality(ExecutingSet) = 5
    /\ \E k \in DOMAIN tasks : k > 5 /\ Executing(tasks[k])

----------------------------------------------------------------------------
\* Task i completes the write of update_excel_status in this step.
Wrote(i) ==
    /\ tasks[i].pc = "xl_write"
    /\ tasks'[i].log = Append(tasks[i].log, "upsert")

\* C11: an upsert for a name the ledger it read already holds writes back that
\* ledger with only the two statuses of the name's row replaced: the row keeps
\* its name and its link whatever the url argument is, every other row is as
\* it was read, and the rows are as many and in the same order.
C11_UpsertFrame ==
    [][\A i \in DOMAIN tasks :
          (Wrote(i) /\ tasks[i].name \in NamesOf(tasks[i].ldf)) =>
              LET old == tasks[i].ldf
                  new == excel'.rows
                  r == IndexOf(old, tasks[i].name)
              IN  /\ Len(new) = Len(old)
                  /\ \A k \in DOMAIN old :
                        /\ new[k].name = old[k].name
                        /\ new[k].url = old[k].url
                        /\ k # r => new[k] = old[k]
                  /\ new[r].dls = tasks[i].dls
                  /\ new[r].ins = tasks[i].ins
                  /\ (~parallel) => old = excel.rows]_vars

\* A call with another link than the row's has rewritten the statuses of a
\* row of a two-row ledger, and the row still has its link.
C11_Witness ==
    \E k \in DOMAIN tasks :
        /\ ~parallel
        /\ tasks[k].pc = "done"
        /\ \A j \in DOMAIN tasks : j > k => tasks[j].pc = "queued"
        /\ Len(df) = 2
        /\ tasks[k].name \in NamesOf(df)
        /\ LET r == IndexOf(df, tasks[k].name)
           IN  /\ tasks[k].url # df[r].url
               /\ excel.rows[r].url = df[r].url
               /\ excel.rows[r].dls = tasks[k].dls
               /\ excel.rows[r].dls # df[r].dls

\* C12: the loop of main is left only by the choice 'q'; whatever else was
\* chosen, and however the workflow it started ended, the process is at the
\* menu, checking the device or running the workflow, never ended.
C12_ExitOnlyByQuit ==
    mainpc \notin {"menu", "checked", "running"} =>
        (mainpc = "exited" /\ choice = "q")

\* The step in which main takes the choice '4' and delete_all_apks runs.
DeleteStep == mainpc = "menu" /\ choice' = "4" /\ rounds' = rounds + 1

\* C13: a package file leaves the directory only in a run of delete_all_apks
\* whose prompt was answered 'y'; a run answered otherwise, or one that found
\* no package file, removes nothing, and no run touches the ledger file.
C13_DeleteOnlyOnYes ==
    [][/\ (apk_files \ apk_files' # {}) => (DeleteStep /\ confirmation' = "y")
       /\ DeleteStep =>
            /\ apk_files' \subseteq apk_files
            /\ confirmation' # "y" => apk_files' = apk_files
            /\ apk_files = {} => (apk_files' = {} /\ confirmation' = "none")
            /\ excel' = excel]_vars

\* After a batch that fetched a package, delete_all_apks was answered 'y' and
\* the directory holds no package file any more, while the ledger is there.
C13_Witness ==
    /\ choice = "4"
    /\ confirmation = "y"
    /\ apk_files = {}
    /\ excel.exists
    /\ \E k \in DOMAIN excel.rows : excel.rows[k].dls = DlOk

DownloadFlows == {"download_apps", "download_and_install_apps"}

\* A download-only or download-and-install batch over a ledger file that was
\* there with zero rows (a missing file stays missing in these workflows).
ZeroRowBatch == workflow \in DownloadFlows /\ excel.exists /\ df = <<>>

\* C14: a download-only or download-and-install batch over a ledger of zero
\* rows has no task, does not end by an exception, can always go on to its
\* report, leaves the ledger as it was, and reports zero for every success,
\* failure and total count.
C14_ZeroRowBatch ==
    ZeroRowBatch =>
        /\ tasks = <<>>
        /\ excel = File(<<>>)
        /\ counters = ZeroCounters
        /\ mainpc # "crashed"
        /\ mainpc = "running" => ENABLED batch_report
        /\ mainpc # "running" =>
             /\ console # <<>>
             /\ \A k \in DOMAIN console :
                  console[k].success = 0 /\ console[k].failure = 0 /\ console[k].total = 0

\* The download-and-install batch over a zero-row ledger has printed its two
\* lines and control is back at the menu.
C14_Witness ==
    /\ ZeroRowBatch
    /\ workflow = "download_and_install_apps"
    /\ mainpc = "menu"
    /\ Len(console) = 2

\* The calls of the log that are call.
CallsOf(t, call) == {k \in DOMAIN t.log : t.log[k] = call}

\* C15: every task that has ended has performed exactly one upsert, and an
\* upsert is the last call of its task: the fetch, and the install where there
\* is one, have returned before it and none follows it.
C15_OneUpsertPerTask ==
    \A k \in DOMAIN tasks :
        /\ Cardinality(CallsOf(tasks[k], "upsert")) <= 1
        /\ InLog(tasks[k], "upsert") =>
             /\ tasks[k].log[Len(tasks[k].log)] = "upsert"
             /\ tasks[k].pc \notin {"fetch", "install"}
        /\ (/\ tasks[k].pc \in {"xl_read", "xl_write"}
            /\ tasks[k].apk # None
            /\ workflow # "download_apps") => InLog(tasks[k], "install")
        /\ Finished(tasks[k]) => Cardinality(CallsOf(tasks[k], "upsert")) = 1

\* The row task i's write puts into the ledger file.
WrittenRow(i) == excel'.rows[IndexOf(excel'.rows, tasks[i].name)]

\* C16: a write of download_apps puts into the entry's row the status its own
\* fetch returned and "未安装", whatever the row held before, and in that
\* workflow no task calls the Installer and adb is not run; a write of
\* download_and_install_apps puts "未安装" into the row exactly when the
\* task's fetch returned no file.
C16_RecordedPair ==
    /\ [](workflow = "download_apps" =>
            /\ adb_out = NoRun
            /\ \A k \in DOMAIN tasks :
                 tasks[k].pc # "install" /\ ~InLog(tasks[k], "install"))
    /\ [][\A i \in DOMAIN tasks :
            (Wrote(i) /\ workflow \in DownloadFlows) =>
                /\ tasks[i].name \in NamesOf(excel'.rows)
                /\ WrittenRow(i).dls = tasks[i].dls
                /\ HasSuccess(tasks[i].dls) <=> tasks[i].apk # None
                /\ workflow = "download_apps" => WrittenRow(i).ins = NotInstalled
                /\ workflow = "download_and_install_apps" =>
                     (WrittenRow(i).ins = NotInstalled <=> tasks[i].apk = None)]_vars

\* A download-only batch has set to "未安装" a row that an earlier batch left
\* with "安装成功", and a download-and-install batch of the same run had
\* recorded an install status for a fetched entry.
C16_Witness ==
    /\ workflow = "download_apps"
    /\ \E k \in DOMAIN tasks :
         /\ tasks[k].pc = "done"
         /\ tasks[k].name \in NamesOf(df)
         /\ df[IndexOf(df, tasks[k].name)].ins = InstOk
         /\ excel.rows[IndexOf(excel.rows, tasks[k].name)].ins = NotInstalled
         /\ excel.rows[IndexOf(excel.rows, tasks[k].name)].dls = tasks[k].dls

\* C17: when an install-local batch is over, every package file of the
\* directory has had one Installer call and then one upsert; each write puts
\* ("已下载", the install status) into the row of the file's base name, a row
\* the ledger read at batch start already had keeps its link and no row is
\* added for it, and for a name it had not a row with the link "本地安装" is
\* appended.
C17_InstallLocalRecords ==
    /\ []((workflow = "install_local_apks" /\ mainpc # "running") =>
            \A k \in DOMAIN tasks : tasks[k].log = <<"install", "upsert">>)
    /\ [][\A i \in DOMAIN tasks :
            (Wrote(i) /\ workflow = "install_local_apks") =>
                /\ tasks[i].log = <<"install">>
                /\ tasks[i].name \in NamesOf(excel'.rows)
                /\ WrittenRow(i).dls = Downloaded
                /\ WrittenRow(i).ins = tasks[i].ins
                /\ tasks[i].name \in NamesOf(df) =>
                     /\ WrittenRow(i).url = df[IndexOf(df, tasks[i].name)].url
                     /\ Len(excel'.rows) = Len(tasks[i].ldf)
                /\ tasks[i].name \notin NamesOf(df) =>
                     excel'.rows = Append(tasks[i].ldf,
                                          Row(tasks[i].name, LocalInstall,
                                              Downloaded, tasks[i].ins))]_vars

\* C18: while the ledger file is missing no batch has a task, none has run to
\* a report or an exception, and the file appears only in the step that
\* starts install_local_apks, empty and before any of the batch's tasks is
\* dispatched; so in install-local the file is there for every upsert, and
\* with no package file in the directory that workflow has no task.
C18_MissingLedger ==
    /\ [](~excel.exists =>
            /\ tasks = <<>>
            /\ console = <<>>
            /\ mainpc \notin {"running", "crashed"}
            /\ workflow # "install_local_apks")
    /\ [](workflow = "install_local_apks" =>
            /\ excel.exists
            /\ apk_files = {} => (tasks = <<>> /\ mainpc # "running")
            /\ tasks # <<>> => {tasks[k].name : k \in DOMAIN tasks} = apk_files)
    /\ [][(~excel.exists /\ excel'.exists) =>
            /\ excel' = File(<<>>)
            /\ workflow' = "install_local_apks"
            /\ \A k \in DOMAIN tasks' : tasks'[k].pc = "queued"]_vars

\* After a device was found, download_and_install_apps was called with no
\* ledger in the directory: control is back at the menu and there is still no
\* ledger, although package files lie in the directory.
C18_Witness ==
    /\ workflow = "download_and_install_apps"
    /\ choice = "3"
    /\ device_id # None
    /\ mainpc = "menu"
    /\ ~excel.exists
    /\ apk_files # {}

\* The ledger a sequential batch leaves: the upserts of the first k tasks
\* applied one after the other to the ledger read at batch start.
RECURSIVE SeqLedger(_, _, _)
SeqLedger(rows, ts, k) ==
    IF k = 0 THEN rows
    ELSE Upsert(SeqLedger(rows, ts, k - 1),
                ts[k].name, ts[k].url, ts[k].dls, ts[k].ins)

\* The tasks that made the call, and those of them whose status says success.
Called(call) == {k \in DOMAIN tasks : InLog(tasks[k], call)}
Succeeded(call) ==
    {k \in Called(call) :
        HasSuccess(IF call = "fetch" THEN tasks[k].dls ELSE tasks[k].ins)}

\* The counts as the tasks' outcomes give them.
ExactCounters ==
    [download_success |-> Cardinality(Succeeded("fetch")),
     download_failure |-> Cardinality(Called("fetch") \ Succeeded("fetch")),
     total_downloads  |-> Cardinality(Called("fetch")),
     total_installs   |-> Cardinality(Called("install")),
     install_success  |-> Cardinality(Succeeded("install")),
     install_failure  |-> Cardinality(Called("install") \ Succeeded("install"))]

\* C19: when a batch has reported, in parallel as in sequential mode, the
\* ledger is the one the tasks' upserts give when applied one after the other
\* to the ledger of batch start, and the reported counts are the numbers of
\* the tasks' successes and failures.
C19_ParallelAsSequential ==
    BatchReported =>
        /\ excel.rows = SeqLedger(df, tasks, Len(tasks))
        /\ console = Report(workflow, ExactCounters)

\* C20: from the start of a download-only or download-and-install batch on,
\* whatever the tasks' reads and writes of the ledger interleave to, the file
\* holds the rows read at batch start, as many and in that order, each with
\* its name and its link; only the two status cells may differ.
C20_RowsKept ==
    (workflow \in DownloadFlows /\ excel.exists /\ UniqueNames(df)) =>
        /\ Len(excel.rows) = Len(df)
        /\ \A k \in DOMAIN df :
             /\ excel.rows[k].name = df[k].name
             /\ excel.rows[k].url = df[k].url
        /\ \A i \in DOMAIN tasks :
             tasks[i].pc = "xl_write" =>
                 /\ Len(tasks[i].ldf) = Len(df)
                 /\ \A k \in DOMAIN df :
                      /\ tasks[i].ldf[k].name = df[k].name
                      /\ tasks[i].ldf[k].url = df[k].url

\* A parallel batch over two entries has ended after a task wrote the ledger
\* from a stale read: an entry's row lacks the status its task recorded, and
\* the two rows are still there with their names and links.
C20_Witness ==
    /\ workflow \in DownloadFlows
    /\ parallel
    /\ BatchReported
    /\ Len(df) = 2
    /\ \E k \in DOMAIN tasks : ~HasRowOf(excel.rows, tasks[k])
    /\ \A k \in DOMAIN df :
         excel.rows[k].name = df[k].name /\ excel.rows[k].url = df[k].url
    /\ \E k \in DOMAIN df : excel.rows[k].dls # df[k].dls

====
